---- MODULE Spec2Model ----
(***************************************************************************)
(* Model of flask_sqlalchemy/base.py: the table-name decision procedure    *)
(* should_set_tablename, the NameMixin.__tablename__ hook, the case        *)
(* converter camel_to_snake_case and Base.__repr__.                        *)
(***************************************************************************)
EXTENDS Integers, Sequences, FiniteSets, TLC

VARIABLES
    mro,        \* cls.__mro__ of the class given to should_set_tablename
    result,     \* last return value of should_set_tablename(cls)
    lookup,     \* lookup path of the class given to NameMixin.__tablename__
    clsName,    \* cls.__name__ of that class (sequence of characters)
    tablename,  \* last return value of NameMixin.__tablename__(cls)
    name,       \* argument of camel_to_snake_case
    pc,         \* how often the converter has been applied to name
    subbed,     \* name after re.sub, before lower() and lstrip()
    out,        \* camel_to_snake_case(name)
    out2,       \* camel_to_snake_case(out)
    status,     \* persistence status of the entity instance
    identity,   \* state.identity of the instance
    handle,     \* id(self)
    typeName,   \* type(self).__name__
    reprOut,    \* value returned by the last call of __repr__
    reprAt      \* status the instance had when __repr__ was last called

vars == <<mro, result, lookup, clsName, tablename, name, pc, subbed, out, out2,
          status, identity, handle, typeName, reprOut, reprAt>>

classVars == <<mro, result>>
hookVars == <<lookup, clsName, tablename>>
convVars == <<name, pc, subbed, out, out2>>
reprVars == <<status, identity, handle, typeName, reprOut, reprAt>>

----
\* Bounds

MaxDepth == 4
MaxLen == 5
MaxKeys == 2

----
\* Characters and strings (a string is a sequence of one-character strings)

UpperChars == <<"A","B","C","D","E","F","G","H","I","J","K","L","M",
                "N","O","P","Q","R","S","T","U","V","W","X","Y","Z">>
LowerChars == <<"a","b","c","d","e","f","g","h","i","j","k","l","m",
                "n","o","p","q","r","s","t","u","v","w","x","y","z">>
DigitChars == <<"0","1","2","3","4","5","6","7","8","9">>

IsUpper(c) == \E i \in DOMAIN UpperChars : UpperChars[i] = c
IsLower(c) == \E i \in DOMAIN LowerChars : LowerChars[i] = c
IsDigit(c) == \E i \in DOMAIN DigitChars : DigitChars[i] = c

\* str.lower() on one character
LowerChar(c) ==
    IF IsUpper(c)
    THEN LowerChars[CHOOSE i \in DOMAIN UpperChars : UpperChars[i] = c]
    ELSE c

\* str.lower()
Lower(s) == [i \in DOMAIN s |-> LowerChar(s[i])]

\* a strip of at most one leading underscore
LStripOne(s) ==
    IF s # <<>> /\ Head(s) = "_" THEN Tail(s) ELSE s

\* str.lstrip("_"): drops every leading underscore
RECURSIVE LStrip(_)
LStrip(s) ==
    IF s # <<>> /\ Head(s) = "_" THEN LStrip(Tail(s)) ELSE s

\* the pattern with the lookbehind [a-z] instead of [a-z0-9]
RegexMatchNoDigit(s, i) ==
    /\ IsUpper(s[i])
    /\ \/ (i > 1 /\ IsLower(s[i-1]))
       \/ (i > 1 /\ i < Len(s) /\ IsLower(s[i+1]))

\* the pattern without its first alternative
RegexMatchLookaheadOnly(s, i) ==
    /\ IsUpper(s[i])
    /\ i > 1 /\ i < Len(s) /\ IsLower(s[i+1])

\* The pattern ((?<=[a-z0-9])[A-Z]|(?!^)[A-Z](?=[a-z])) at position i of s
RegexMatch(s, i) ==
    /\ IsUpper(s[i])
    /\ \/ (i > 1 /\ (IsLower(s[i-1]) \/ IsDigit(s[i-1])))
       \/ (i > 1 /\ i < Len(s) /\ IsLower(s[i+1]))

\* re.sub(pattern, r"_\1", s) from position i on; every match is one
\* character wide, so the scan visits each position once, left to right
RECURSIVE ReSubFrom(_, _)
ReSubFrom(s, i) ==
    IF i > Len(s) THEN <<>>
    ELSE (IF RegexMatch(s, i) THEN <<"_", s[i]>> ELSE <<s[i]>>)
         \o ReSubFrom(s, i + 1)

ReSub(s) == ReSubFrom(s, 1)

camel_to_snake_case(s) == LStrip(Lower(ReSub(s)))

----
\* Class descriptors as should_set_tablename reads them: for every class of
\* cls.__mro__, what its own __dict__ holds under "__tablename__" and
\* "__abstract__", and whether it is an instance of DeclarativeMeta

Decls == {"none", "fixed", "deferred"}   \* "__tablename__" in base.__dict__

\* builtins.object, the last entry of every __mro__
ObjectClass ==
    [kind |-> "object", decl |-> "none", abstract |-> FALSE, mapped |-> FALSE]

\* NameMixin without a __tablename__ of its own
NameMixinClassUndeclared ==
    [kind |-> "NameMixin", decl |-> "none", abstract |-> FALSE,
     mapped |-> FALSE]

\* class NameMixin: its __dict__ holds __tablename__ as a declared_attr
NameMixinClass ==
    [kind |-> "NameMixin", decl |-> "deferred", abstract |-> FALSE,
     mapped |-> FALSE]

\* A user-defined class; mapped = isinstance(class, DeclarativeMeta)
UserClass(d, a, mp) ==
    [kind |-> "class", decl |-> d, abstract |-> a, mapped |-> mp]

\* Plain mixins (metaclass type) that a model may list among its bases
Mixins ==
    {NameMixinClass} \cup
    {UserClass(d, a, FALSE) : d \in Decls, a \in BOOLEAN}

\* any(isinstance(b, DeclarativeMeta) for b in cls.__mro__[1:])
AnyMappedAncestor(m) == \E i \in 2..Len(m) : m[i].mapped

\* the walk without the test "base is cls"
RECURSIVE WalkMroNoSelfTest(_, _)
WalkMroNoSelfTest(m, i) ==
    IF i > Len(m) THEN TRUE
    ELSE IF m[i].decl = "none" THEN WalkMroNoSelfTest(m, i + 1)
    ELSE IF m[i].decl = "deferred" THEN FALSE
    ELSE ~(m[i].abstract \/ ~m[i].mapped)

\* the walk skipping deferred declarations
RECURSIVE WalkMroSkipDeferred(_, _)
WalkMroSkipDeferred(m, i) ==
    IF i > Len(m) THEN TRUE
    ELSE IF m[i].decl # "fixed" THEN WalkMroSkipDeferred(m, i + 1)
    ELSE ~(i = 1 \/ m[i].abstract \/ ~m[i].mapped)

\* for base in cls.__mro__: ... from index i on
RECURSIVE WalkMro(_, _)
WalkMro(m, i) ==
    IF i > Len(m) THEN TRUE
    ELSE IF m[i].decl = "none" THEN WalkMro(m, i + 1)
    ELSE IF m[i].decl = "deferred" THEN FALSE
    ELSE ~(i = 1 \/ m[i].abstract \/ ~m[i].mapped)

\* the decision without the test of __abstract__
should_set_tablename_NoAbstract(m) ==
    IF ~AnyMappedAncestor(m)
    THEN FALSE
    ELSE WalkMro(m, 1)

should_set_tablename(m) ==
    IF m[1].abstract \/ ~AnyMappedAncestor(m)
    THEN FALSE
    ELSE WalkMro(m, 1)

NoResult == [called |-> FALSE, val |-> FALSE]

\* metaclass of a new class: DeclarativeMeta is inherited from any base
NewMapped(m) == IF \E i \in DOMAIN m : m[i].mapped THEN {TRUE} ELSE BOOLEAN

----
\* Class definition and should_set_tablename

\* class New(Cur): ...
DefineClass ==
    /\ Len(mro) <= MaxDepth
    /\ \E d \in Decls, a \in BOOLEAN, mp \in NewMapped(mro) :
          mro' = <<UserClass(d, a, mp)>> \o mro
    /\ result' = NoResult
    /\ UNCHANGED <<hookVars, convVars, reprVars>>

\* class New(Mixin, Cur): ...
DefineWithMixinFirst ==
    /\ Len(mro) + 1 <= MaxDepth
    /\ \E d \in Decls, a \in BOOLEAN, mp \in NewMapped(mro), mx \in Mixins :
          /\ \A j \in DOMAIN mro : mro[j].kind = "NameMixin" => mx # mro[j]
          /\ mro' = <<UserClass(d, a, mp), mx>> \o mro
    /\ result' = NoResult
    /\ UNCHANGED <<hookVars, convVars, reprVars>>

\* class New(Cur, Mixin): ...
DefineWithMixinLast ==
    /\ Len(mro) > 1
    /\ Len(mro) + 1 <= MaxDepth
    /\ \E d \in Decls, a \in BOOLEAN, mp \in NewMapped(mro), mx \in Mixins :
          /\ \A j \in DOMAIN mro : mro[j].kind = "NameMixin" => mx # mro[j]
          /\ mro' = <<UserClass(d, a, mp)>>
                    \o SubSeq(mro, 1, Len(mro) - 1)
                    \o <<mx, ObjectClass>>
    /\ result' = NoResult
    /\ UNCHANGED <<hookVars, convVars, reprVars>>

\* should_set_tablename(cls)
CallShouldSetTablename ==
    /\ Len(mro) > 1
    /\ result' = [called |-> TRUE, val |-> should_set_tablename(mro)]
    /\ UNCHANGED <<mro, hookVars, convVars, reprVars>>

NextClass ==
    \/ DefineClass
    \/ DefineWithMixinFirst
    \/ DefineWithMixinLast
    \/ CallShouldSetTablename

----
\* Classes as NameMixin.__tablename__ reads them: for every class on the
\* lookup path of cls, what its own __dict__ holds under "id".  The classes
\* here derive from NameMixin and declare no __tablename__ themselves, so
\* cls.__tablename__ is the declared_attr of NameMixin evaluated on cls.

Ids == {"none", "pk", "plain"}    \* no id, primary_key true, primary_key false
ClassNames == {<<"U","s","e","r">>,
               <<"U","s","e","r","A","c","c","o","u","n","t">>}

ObjectAttrs == [kind |-> "object", abstract |-> FALSE, id |-> "none"]
NameMixinAttrs == [kind |-> "NameMixin", abstract |-> FALSE, id |-> "none"]
UserAttrs(a, i) == [kind |-> "class", abstract |-> a, id |-> i]

\* hasattr(cls, "id"): attribute lookup along the __mro__
HasAttrId(m) == \E i \in DOMAIN m : m[i].id # "none"

\* getattr(cls.id, "primary_key", False); cls.id is the first id found
IdPrimaryKey(m) ==
    LET k == CHOOSE i \in DOMAIN m :
                 m[i].id # "none" /\ \A j \in 1..(i-1) : m[j].id = "none"
    IN  m[k].id = "pk"

NoValue == [called |-> FALSE, isNone |-> FALSE, val |-> <<>>]
NoneValue == [called |-> TRUE, isNone |-> TRUE, val |-> <<>>]
StrValue(s) == [called |-> TRUE, isNone |-> FALSE, val |-> s]

\* NameMixin.__tablename__(cls)
TablenameHook(m, nm) ==
    IF HasAttrId(m) /\ IdPrimaryKey(m)
    THEN StrValue(camel_to_snake_case(nm))
    ELSE NoneValue

\* class New(Cur): ... with Cur a class derived from NameMixin, or
\* NameMixin itself
DefineModel ==
    /\ Len(lookup) <= MaxDepth + 1
    /\ \E a \in BOOLEAN, i \in Ids, nm \in ClassNames :
          /\ lookup' = <<UserAttrs(a, i)>> \o lookup
          /\ clsName' = nm
    /\ tablename' = NoValue
    /\ UNCHANGED <<classVars, convVars, reprVars>>

\* cls.__tablename__
ResolveTablename ==
    /\ Len(lookup) > 2
    /\ tablename' = TablenameHook(lookup, clsName)
    /\ UNCHANGED <<lookup, clsName, classVars, convVars, reprVars>>

NextHook ==
    \/ DefineModel
    \/ ResolveTablename

----
\* The case converter applied to a name, and to its own result

Alphabet == {"a", "B", "1", "_"}

Examples == {<<"U","s","e","r">>,
             <<"U","s","e","r","A","c","c","o","u","n","t">>,
             <<"H","T","T","P","S","e","r","v","e","r">>,
             <<"A","B","T","e","s","t","2","V","a","r","i","a","n","t">>}

RECURSIVE Strings(_)
Strings(n) ==
    IF n = 0 THEN {<<>>}
    ELSE LET shorter == Strings(n - 1)
         IN  shorter \cup {Append(s, c) : s \in {t \in shorter : Len(t) = n - 1},
                                          c \in Alphabet}

Inputs == (Strings(MaxLen) \ {<<>>}) \cup Examples

\* camel_to_snake_case(name)
Convert ==
    /\ pc = "start"
    /\ subbed' = ReSub(name)
    /\ out' = camel_to_snake_case(name)
    /\ pc' = "once"
    /\ UNCHANGED <<name, out2, classVars, hookVars, reprVars>>

\* camel_to_snake_case(camel_to_snake_case(name))
ConvertAgain ==
    /\ pc = "once"
    /\ out2' = camel_to_snake_case(out)
    /\ pc' = "twice"
    /\ UNCHANGED <<name, subbed, out, classVars, hookVars, reprVars>>

NextConv ==
    \/ Convert
    \/ ConvertAgain

----
\* Entity instances and Base.__repr__

Handles == {7, 4242}
TypeNames == {"User", "UserAccount"}
KeyValues == {[kind |-> "int", i |-> 1, s |-> ""],
              [kind |-> "int", i |-> 20, s |-> ""],
              [kind |-> "str", i |-> 0, s |-> "a"]}

RECURSIVE Tuples(_)
Tuples(n) ==
    IF n = 0 THEN {<<>>}
    ELSE LET shorter == Tuples(n - 1)
         IN  shorter \cup {Append(t, k) : t \in {u \in shorter : Len(u) = n - 1},
                                          k \in KeyValues}

Identities == Tuples(MaxKeys) \ {<<>>}

\* str(component)
Str(k) == IF k.kind = "int" THEN ToString(k.i) ELSE k.s

\* sep.join(items) for items already converted by map(str, ...)
RECURSIVE Join(_, _)
Join(sep, items) ==
    IF items = <<>> THEN ""
    ELSE IF Len(items) = 1 THEN Head(items)
    ELSE Head(items) \o sep \o Join(sep, Tail(items))

\* __repr__ without the branch for pending instances
ReprNoPending(st, ident, h, tn) ==
    LET pk == IF st = "transient" THEN "(transient " \o ToString(h) \o ")"
              ELSE Join(", ", [i \in DOMAIN ident |-> Str(ident[i])])
    IN  "<" \o tn \o " " \o pk \o ">"

\* Base.__repr__(self)
Repr(st, ident, h, tn) ==
    LET pk == IF st = "transient" THEN "(transient " \o ToString(h) \o ")"
              ELSE IF st = "pending" THEN "(pending " \o ToString(h) \o ")"
              ELSE Join(", ", [i \in DOMAIN ident |-> Str(ident[i])])
    IN  "<" \o tn \o " " \o pk \o ">"

\* session.add(instance)
SessionAdd ==
    /\ status = "transient"
    /\ status' = "pending"
    /\ UNCHANGED <<identity, handle, typeName, reprOut, reprAt,
                   classVars, hookVars, convVars>>

\* session.expunge(instance) before the flush
SessionExpunge ==
    /\ status = "pending"
    /\ status' = "transient"
    /\ UNCHANGED <<identity, handle, typeName, reprOut, reprAt,
                   classVars, hookVars, convVars>>

\* session.flush(): the instance receives its identity
SessionFlush ==
    /\ status = "pending"
    /\ status' = "persistent"
    /\ identity' \in Identities
    /\ UNCHANGED <<handle, typeName, reprOut, reprAt,
                   classVars, hookVars, convVars>>

\* repr(instance)
CallRepr ==
    /\ reprOut' = Repr(status, identity, handle, typeName)
    /\ reprAt' = status
    /\ UNCHANGED <<status, identity, handle, typeName,
                   classVars, hookVars, convVars>>

NextRepr ==
    \/ SessionAdd
    \/ SessionExpunge
    \/ SessionFlush
    \/ CallRepr

----
\* Specifications

\* No model class is defined, nothing has been converted or represented
Init ==
    /\ mro = <<ObjectClass>>
    /\ result = NoResult
    /\ lookup = <<NameMixinAttrs, ObjectAttrs>>
    /\ clsName = <<"N","a","m","e","M","i","x","i","n">>
    /\ tablename = NoValue
    /\ name = <<"U","s","e","r">>
    /\ pc = "start"
    /\ subbed = <<>>
    /\ out = <<>>
    /\ out2 = <<>>
    /\ status = "transient"
    /\ identity = <<>>
    /\ handle = 7
    /\ typeName = "User"
    /\ reprOut = ""
    /\ reprAt = "never"

Next == NextClass
Spec == Init /\ [][Next]_vars

SpecHook == Init /\ [][NextHook]_vars

\* The converter is about to be called with any of the inputs
InitConv ==
    /\ mro = <<ObjectClass>>
    /\ result = NoResult
    /\ lookup = <<NameMixinAttrs, ObjectAttrs>>
    /\ clsName = <<"N","a","m","e","M","i","x","i","n">>
    /\ tablename = NoValue
    /\ name \in Inputs
    /\ pc = "start"
    /\ subbed = <<>>
    /\ out = <<>>
    /\ out2 = <<>>
    /\ status = "transient"
    /\ identity = <<>>
    /\ handle = 7
    /\ typeName = "User"
    /\ reprOut = ""
    /\ reprAt = "never"

SpecConv == InitConv /\ [][NextConv]_vars

\* A new instance is transient and has no identity
InitRepr ==
    /\ mro = <<ObjectClass>>
    /\ result = NoResult
    /\ lookup = <<NameMixinAttrs, ObjectAttrs>>
    /\ clsName = <<"N","a","m","e","M","i","x","i","n">>
    /\ tablename = NoValue
    /\ name = <<"U","s","e","r">>
    /\ pc = "start"
    /\ subbed = <<>>
    /\ out = <<>>
    /\ out2 = <<>>
    /\ status = "transient"
    /\ identity = <<>>
    /\ handle \in Handles
    /\ typeName \in TypeNames
    /\ reprOut = ""
    /\ reprAt = "never"

SpecRepr == InitRepr /\ [][NextRepr]_vars

----
\* Vocabulary of the properties

PassesGuard(m) == ~m[1].abstract /\ \E i \in 2..Len(m) : m[i].mapped

Declares(m) == \E k \in DOMAIN m : m[k].decl # "none"

\* first class, most derived first, that declares an identifier directly
FirstDeclaring(m) ==
    CHOOSE k \in DOMAIN m :
        m[k].decl # "none" /\ \A j \in 1..(k-1) : m[j].decl = "none"

UsesNameMixin(m) == \E k \in DOMAIN m : m[k].kind = "NameMixin"

\* NameMixin is in the chain and no class before it declares an identifier
ResolvesToNameMixin(m) ==
    \E k \in DOMAIN m :
        /\ m[k].kind = "NameMixin"
        /\ \A j \in 1..(k-1) : m[j].decl = "none"

\* C1: when the guard passes and the first declaring class holds a fixed
\* declaration, should_set_tablename returns true exactly if that class is
\* not the candidate itself, is not abstract and is a mapped type.
C1_FixedDeclaration ==
    (result.called /\ PassesGuard(mro) /\ Declares(mro)
        /\ mro[FirstDeclaring(mro)].decl = "fixed")
    => LET k == FirstDeclaring(mro)
       IN  result.val = (k # 1 /\ ~mro[k].abstract /\ mro[k].mapped)

\* a fixed declaration decides for true although a class further up the
\* chain holds a deferred one
C1_Witness ==
    /\ result.called /\ result.val
    /\ PassesGuard(mro) /\ Declares(mro)
    /\ FirstDeclaring(mro) = 2
    /\ mro[2].decl = "fixed"
    /\ mro[3].decl = "deferred"

\* C2: should_set_tablename returns false for every class marked abstract
\* and for every class without a mapped proper ancestor, whatever is
\* declared in the chain.
C2_GuardReturnsFalse ==
    (result.called /\ (mro[1].abstract \/ ~\E i \in 2..Len(mro) : mro[i].mapped))
    => ~result.val

\* an abstract class whose mapped, non-abstract parent fixes an identifier
C2_Witness ==
    /\ result.called /\ ~result.val
    /\ mro[1].abstract /\ mro[1].decl = "none"
    /\ mro[2].decl = "fixed" /\ mro[2].mapped /\ ~mro[2].abstract

\* C3 as stated: a deferred declaration anywhere in the chain makes
\* should_set_tablename return false.
C3_AnyDeferredSuppresses ==
    (result.called /\ \E k \in DOMAIN mro : mro[k].decl = "deferred")
    => ~result.val

\* C3 amended: should_set_tablename returns false when the first class of
\* the chain that declares an identifier directly holds a deferred
\* declaration.
C3_FirstDeferredSuppresses ==
    (result.called /\ Declares(mro)
        /\ mro[FirstDeclaring(mro)].decl = "deferred")
    => ~result.val

\* the guard passes and a proper ancestor holds the first, deferred
\* declaration
C3_Witness ==
    /\ result.called /\ ~result.val
    /\ PassesGuard(mro) /\ Declares(mro)
    /\ FirstDeclaring(mro) > 1
    /\ mro[FirstDeclaring(mro)].decl = "deferred"
    /\ mro[FirstDeclaring(mro)].kind # "NameMixin"

\* C4: the hook produces an identifier only for a class that itself
\* provides a primary-key field named id.
C4_OwnPrimaryKeyOnly ==
    (tablename.called /\ ~tablename.isNone) => lookup[1].id = "pk"

\* C5: resolving the identifier of a class marked abstract through the hook
\* yields no identifier.
C5_AbstractGetsNoName ==
    (tablename.called /\ lookup[1].abstract) => tablename.isNone

\* C10: for a class with NameMixin in its chain and no identifier declared
\* by an earlier class, should_set_tablename returns false; the walk never
\* runs off the end of the chain of a class that uses NameMixin.
C10_NameMixinSuppresses ==
    /\ (result.called /\ ResolvesToNameMixin(mro)) => ~result.val
    /\ (result.called /\ UsesNameMixin(mro) /\ PassesGuard(mro))
           => Declares(mro)

\* the guard passes and the walk ends at NameMixin
C10_Witness ==
    /\ result.called /\ ~result.val
    /\ PassesGuard(mro)
    /\ ResolvesToNameMixin(mro)

IsUnderscore(c) == c = "_"
NotUnderscore(c) == c # "_"

LettersAndDigits(s) ==
    \A i \in DOMAIN s : IsUpper(s[i]) \/ IsLower(s[i]) \/ IsDigit(s[i])

\* position in o of its i-th character that is not an underscore
CharPos(o, i) ==
    CHOOSE p \in DOMAIN o :
        o[p] # "_" /\ Cardinality({q \in 1..p : o[q] # "_"}) = i

\* in the result o, an underscore stands directly before the image of the
\* i-th character of an underscore-free input
UnderscoreBefore(o, i) == CharPos(o, i) > 1 /\ o[CharPos(o, i) - 1] = "_"

\* the two cases in which the converter is to split before character i
SplitBefore(s, i) ==
    /\ IsUpper(s[i])
    /\ \/ i > 1 /\ (IsLower(s[i-1]) \/ IsDigit(s[i-1]))
       \/ i # 1 /\ i < Len(s) /\ IsLower(s[i+1])

\* C6: for a non-empty string of letters and digits the result is the
\* lower-cased input with one underscore before exactly the uppercase
\* letters that follow a lowercase letter or digit, or that are followed
\* by a lowercase letter and are not the first character; there is no
\* other underscore and no leading one.
C6_SplitsExactlyAtHumps ==
    (pc # "start" /\ LettersAndDigits(name)) =>
        /\ SelectSeq(out, NotUnderscore) = Lower(name)
        /\ \A p \in DOMAIN out :
               out[p] = "_" => (p > 1 /\ p < Len(out) /\ out[p+1] # "_")
        /\ \A i \in DOMAIN name :
               UnderscoreBefore(out, i) <=> SplitBefore(name, i)
        /\ name = <<"U","s","e","r">> => out = <<"u","s","e","r">>
        /\ name = <<"U","s","e","r","A","c","c","o","u","n","t">>
               => out = <<"u","s","e","r","_","a","c","c","o","u","n","t">>
        /\ name = <<"H","T","T","P","S","e","r","v","e","r">>
               => out = <<"h","t","t","p","_","s","e","r","v","e","r">>
        /\ name = <<"A","B","T","e","s","t","2","V","a","r","i","a","n","t">>
               => out = <<"a","b","_","t","e","s","t","2","_",
                          "v","a","r","i","a","n","t">>

\* an acronym run followed by a word
C6_Witness ==
    /\ pc # "start"
    /\ name = <<"H","T","T","P","S","e","r","v","e","r">>
    /\ out = <<"h","t","t","p","_","s","e","r","v","e","r">>

\* C7 as stated: no underscore is inserted directly after a digit when the
\* next character is an uppercase letter that ends the string or is
\* followed by another uppercase letter or a digit.
C7_DigitNeedsUpperThenLower ==
    (pc # "start" /\ LettersAndDigits(name)) =>
        \A i \in 1..(Len(name) - 1) :
            ( /\ IsDigit(name[i])
              /\ IsUpper(name[i+1])
              /\ \/ i + 1 = Len(name)
                 \/ IsUpper(name[i+2])
                 \/ IsDigit(name[i+2]) )
            => ~UnderscoreBefore(out, i + 1)

\* C7 amended: an underscore is inserted directly after a digit exactly
\* when the next character is an uppercase letter, whatever follows that
\* letter.
C7_DigitThenUpperSplits ==
    (pc # "start" /\ LettersAndDigits(name)) =>
        \A i \in 1..(Len(name) - 1) :
            IsDigit(name[i]) =>
                (UnderscoreBefore(out, i + 1) <=> IsUpper(name[i+1]))

\* an uppercase letter that follows a digit and ends the string
C7_Witness ==
    /\ pc # "start"
    /\ name = <<"a","1","B">>
    /\ out = <<"a","1","_","b">>

\* C8: converting the result of a conversion again returns it unchanged.
C8_Idempotent == pc = "twice" => out2 = out

\* an input with leading underscores and a hump
C8_Witness ==
    /\ pc = "twice"
    /\ name = <<"_","_","a","B">>
    /\ out = <<"a","_","b">>
    /\ out2 = out

\* the key part of the representation of a persisted instance
RECURSIVE ExpectedPk(_)
ExpectedPk(t) ==
    IF Len(t) = 1 THEN Str(t[1])
    ELSE ExpectedPk(SubSeq(t, 1, Len(t) - 1)) \o ", " \o Str(t[Len(t)])

ExpectedRepr(st, ident, h, tn) ==
    CASE st = "transient" -> "<" \o tn \o " (transient " \o ToString(h) \o ")>"
      [] st = "pending" -> "<" \o tn \o " (pending " \o ToString(h) \o ")>"
      [] OTHER -> "<" \o tn \o " " \o ExpectedPk(ident) \o ">"

\* C9: every call of __repr__ returns the representation of the status the
\* instance has at the time of the call, whatever was returned before, and
\* changes neither the status nor the identity.
C9_ReprReflectsCurrentStatus ==
    [][(reprOut' # reprOut \/ reprAt' # reprAt) =>
          /\ reprAt' = status
          /\ reprOut' = ExpectedRepr(status, identity, handle, typeName)
          /\ status' = status
          /\ identity' = identity]_vars

\* a persisted instance with a two-part key, represented after its flush
C9_Witness ==
    /\ status = "persistent"
    /\ reprAt = "persistent"
    /\ typeName = "User"
    /\ identity = <<[kind |-> "int", i |-> 1, s |-> ""],
                    [kind |-> "str", i |-> 0, s |-> "a"]>>
    /\ reprOut = "<User 1, a>"

====
